---- MODULE Spec2Model ----
(***************************************************************************)
(* AI Study Assistant (src/app.py): the multi-provider generation and      *)
(* response-normalisation pipeline of class AIStudyAssistant, and the      *)
(* export serialisation of main.                                            *)
(*                                                                         *)
(* Text is a sequence of tokens.  A token is one character ("{", the       *)
(* double quote QT, the newline NL, the space SP, a digit, a letter) or an *)
(* indivisible run of characters: the markdown fences FENCE_JSON and FENCE,*)
(* and the words of the reply schema ("summary", "questions", ...), which  *)
(* occur only inside string literals.                                      *)
(***************************************************************************)
EXTENDS Integers, Sequences, FiniteSets, TLC

\* ------------------------------------------------------------------ text

QT == "\""
NL == "NL"
SP == "SP"
\* the opening fence of a json block: three backticks and the word json
FENCE_JSON == "<fence-json>"
\* three backticks
FENCE == "<fence>"
\* what is left of a multi-character token whose last character was cut off
CUT == "~"

\* str.split / str.strip / json whitespace in the alphabet
IsSpace(c) == c \in {SP, NL}

\* the tokens that begin with three backticks: find of FENCE matches at both
StartsWithFence(c) == c \in {FENCE, FENCE_JSON}

\* the tokens that stand for more than one character
Words == {FENCE, FENCE_JSON, "null", "summary", "questions", "type", "question",
          "options", "correct_answer", "sample_answer", "multiple_choice",
          "short_answer", "analytical"}

\* s[a:b] of Python for 0 <= a, 0 <= b (0-based, end exclusive)
Slice(s, a, b) ==
    LET hi == IF b > Len(s) THEN Len(s) ELSE b
    IN  IF a >= hi THEN <<>> ELSE SubSeq(s, a + 1, hi)

\* s[a:-1] of Python: up to, not including, the last CHARACTER
SliceToLastChar(s, a) ==
    IF a >= Len(s) THEN <<>>
    ELSE IF s[Len(s)] \in Words
         THEN Slice(s, a, Len(s) - 1) \o <<CUT>>
         ELSE Slice(s, a, Len(s) - 1)

\* the 0-based index of the least member of hits, -1 if there is none
LeastOrMinusOne(hits) ==
    IF hits = {} THEN -1 ELSE CHOOSE i \in hits : \A j \in hits : i <= j

\* s.find(FENCE_JSON)
FindFenceJson(s) ==
    LeastOrMinusOne({i \in 0..(Len(s) - 1) : s[i + 1] = FENCE_JSON})

\* s.find(FENCE, start): the three backticks of either fence token match
FindFence(s, start) ==
    LeastOrMinusOne({i \in start..(Len(s) - 1) : StartsWithFence(s[i + 1])})

\* str.strip()
RECURSIVE LStrip(_)
LStrip(s) == IF s # <<>> /\ IsSpace(Head(s)) THEN LStrip(Tail(s)) ELSE s

RECURSIVE RStrip(_)
RStrip(s) ==
    IF s # <<>> /\ IsSpace(s[Len(s)]) THEN RStrip(SubSeq(s, 1, Len(s) - 1)) ELSE s

Strip(s) == RStrip(LStrip(s))

\* response.split('\n\n'): the separators are the leftmost non-overlapping
\* pairs of newlines, so in a run of newlines every second one starts a
\* separator; the result is never the empty list
Split(s) ==
    LET RunStart(i) == CHOOSE j \in 1..i :
                          /\ \A k \in j..i : s[k] = NL
                          /\ (j = 1 \/ s[j - 1] # NL)
        seps == {i \in 1..(Len(s) - 1) :
                    s[i] = NL /\ s[i + 1] = NL /\ (i - RunStart(i)) % 2 = 0}
        Sep(n) == CHOOSE i \in seps : Cardinality({j \in seps : j < i}) = n - 1
        count == Cardinality(seps)
    IN  [n \in 1..(count + 1) |->
            SubSeq(s, IF n = 1 THEN 1 ELSE Sep(n - 1) + 2,
                      IF n = count + 1 THEN Len(s) ELSE Sep(n) - 1)]

\* ------------------------------------------------------- Python values
\* A value json.loads can return, or the code builds: t is its Python type,
\* s the text of a str (the digits of an int), a the items of a list, o the
\* items of a dict in insertion order, each [k |-> key text, v |-> value].

PyNone == [t |-> "None", s |-> <<>>, a |-> <<>>, o |-> <<>>]
PyStr(x) == [t |-> "str", s |-> x, a |-> <<>>, o |-> <<>>]
PyInt(x) == [t |-> "int", s |-> x, a |-> <<>>, o |-> <<>>]
PyList(x) == [t |-> "list", s |-> <<>>, a |-> x, o |-> <<>>]
PyDict(x) == [t |-> "dict", s |-> <<>>, a |-> <<>>, o |-> x]

Item(k, v) == [k |-> k, v |-> v]

\* key in d
HasKey(d, k) == d.t = "dict" /\ \E i \in 1..Len(d.o) : d.o[i].k = k

\* d[key], for a key that d has
Get(d, k) == d.o[CHOOSE i \in 1..Len(d.o) : d.o[i].k = k].v

\* d[key] = v on the items of a dict: a repeated key keeps its place
DictSet(items, k, v) ==
    IF \E i \in 1..Len(items) : items[i].k = k
    THEN [i \in 1..Len(items) |-> IF items[i].k = k THEN Item(k, v) ELSE items[i]]
    ELSE Append(items, Item(k, v))

\* ---------------------------------------------------------- json.loads
\* The decoder of the standard library on the token alphabet: objects,
\* arrays, strings (strict: no raw newline inside), integers, null; whitespace is
\* SP and NL.  A parse step returns [ok, v, next]: next is the 1-based index
\* of the first token after the value.

NoParse == [ok |-> FALSE, v |-> PyNone, next |-> 0]
Parsed(v, next) == [ok |-> TRUE, v |-> v, next |-> next]

IsDigit(c) == c = "7"

RECURSIVE SkipWs(_, _)
SkipWs(s, i) == IF i <= Len(s) /\ IsSpace(s[i]) THEN SkipWs(s, i + 1) ELSE i

\* py_scanstring after the opening quote
RECURSIVE ScanString(_, _, _)
ScanString(s, i, acc) ==
    IF i > Len(s) THEN NoParse
    ELSE IF s[i] = QT THEN Parsed(PyStr(acc), i + 1)
    ELSE IF s[i] = NL THEN NoParse
    ELSE ScanString(s, i + 1, Append(acc, s[i]))

\* NUMBER_RE from the first digit on
RECURSIVE ScanDigits(_, _, _)
ScanDigits(s, i, acc) ==
    IF i <= Len(s) /\ IsDigit(s[i])
    THEN ScanDigits(s, i + 1, Append(acc, s[i]))
    ELSE Parsed(PyInt(acc), i)

RECURSIVE ScanOnce(_, _)
RECURSIVE ScanArray(_, _, _)
RECURSIVE ScanObject(_, _, _)

\* JSONArray: i is the index of the next element
ScanArray(s, i, acc) ==
    LET r == ScanOnce(s, i)
        j == SkipWs(s, r.next)
    IN  IF ~r.ok \/ j > Len(s) THEN NoParse
        ELSE IF s[j] = "]" THEN Parsed(PyList(Append(acc, r.v)), j + 1)
        ELSE IF s[j] = "," THEN ScanArray(s, SkipWs(s, j + 1), Append(acc, r.v))
        ELSE NoParse

\* JSONObject: i is the index of the opening quote of the next key
ScanObject(s, i, acc) ==
    IF i > Len(s) \/ s[i] # QT THEN NoParse
    ELSE
    LET k == ScanString(s, i + 1, <<>>)
        c == SkipWs(s, k.next)
    IN  IF ~k.ok \/ c > Len(s) \/ s[c] # ":" THEN NoParse
        ELSE
        LET r == ScanOnce(s, SkipWs(s, c + 1))
            j == SkipWs(s, r.next)
        IN  IF ~r.ok \/ j > Len(s) THEN NoParse
            ELSE IF s[j] = "}"
                 THEN Parsed(PyDict(DictSet(acc, k.v.s, r.v)), j + 1)
            ELSE IF s[j] = ","
                 THEN ScanObject(s, SkipWs(s, j + 1), DictSet(acc, k.v.s, r.v))
            ELSE NoParse

\* scan_once: the value that starts at token i
ScanOnce(s, i) ==
    IF i > Len(s) THEN NoParse
    ELSE IF s[i] = QT THEN ScanString(s, i + 1, <<>>)
    ELSE IF s[i] = "null" THEN Parsed(PyNone, i + 1)
    ELSE IF s[i] = "{"
         THEN LET j == SkipWs(s, i + 1)
              IN  IF j <= Len(s) /\ s[j] = "}" THEN Parsed(PyDict(<<>>), j + 1)
                  ELSE ScanObject(s, j, <<>>)
    ELSE IF s[i] = "["
         THEN LET j == SkipWs(s, i + 1)
              IN  IF j <= Len(s) /\ s[j] = "]" THEN Parsed(PyList(<<>>), j + 1)
                  ELSE ScanArray(s, j, <<>>)
    ELSE IF IsDigit(s[i]) THEN ScanDigits(s, i, <<>>)
    ELSE NoParse

\* json.loads(s): [ok |-> FALSE] stands for JSONDecodeError
JsonLoads(s) ==
    LET r == ScanOnce(s, SkipWs(s, 1))
    IN  IF r.ok /\ SkipWs(s, r.next) = Len(s) + 1 THEN r ELSE NoParse

\* ----------------------------------------------- response normalisation

K(word) == <<word>>

\* {"summary": summary, "questions": questions}
Artifact(summary, questions) ==
    PyDict(<<Item(K("summary"), summary), Item(K("questions"), questions)>>)

\* {"summary": "", "questions": []}
EmptyArtifact == Artifact(PyStr(<<>>), PyList(<<>>))

\* What one call of generate_study_content did: the value it returned, the
\* exception that left it ("none": it returned), the st.error messages it
\* emitted, the number of requests it sent to a model service, the branch
\* it ended in and the text it handed to json.loads (<<>> if it did not).
Outcome(result, path, parsed, msgs, calls) ==
    [result |-> result, raised |-> "none", path |-> path, parsed |-> parsed,
     msgs |-> msgs, netCalls |-> calls]

\* the replaced body of the except clause: the exception leaves the adapter
OnProviderError_Propagates(name, exc) ==
    [result |-> PyNone, raised |-> exc, path |-> "error", parsed |-> <<>>,
     msgs |-> <<>>, netCalls |-> 1]

\* except Exception as e: st.error(...); return {"summary": "", "questions": []}
OnProviderError(name, exc) ==
    Outcome(EmptyArtifact, "error", <<>>,
            <<<<"Error generating content with", name>>>>, 1)

\* if '<fence>json' in response_content: response_content[json_start:json_end]
\* (find(...) + 7 steps over the seven characters of the FENCE_JSON token;
\* a find that returns -1 makes the slice end before the last character)
ExtractFenced(response_content) ==
    IF \E i \in 1..Len(response_content) : response_content[i] = FENCE_JSON
    THEN LET json_start == FindFenceJson(response_content) + 1
             json_end == FindFence(response_content, json_start)
         IN  IF json_end = -1
             THEN SliceToLastChar(response_content, json_start)
             ELSE Slice(response_content, json_start, json_end)
    ELSE response_content

ShortAnswer(text) ==
    PyDict(<<Item(K("type"), PyStr(K("short_answer"))),
             Item(K("question"), PyStr(text)),
             Item(K("sample_answer"), PyStr(K("Answer not provided")))>>)

\* for part in parts[1:]: if part.strip(): questions.append({...})
RECURSIVE QuestionsOf(_)
QuestionsOf(parts) ==
    IF parts = <<>> THEN <<>>
    ELSE IF Strip(Head(parts)) # <<>>
         THEN <<ShortAnswer(Strip(Head(parts)))>> \o QuestionsOf(Tail(parts))
         ELSE QuestionsOf(Tail(parts))

\* AIStudyAssistant._parse_simple_response
parse_simple_response(response) ==
    LET parts == Split(response)
        summary == IF parts # <<>> THEN parts[1] ELSE K("Summary not available")
    IN  Artifact(PyStr(summary), PyList(QuestionsOf(Tail(parts))))

\* the fallback run on the extracted slice instead of the raw reply
NormalizeFenced_FallbackOnSlice(raw) ==
    LET response_content == ExtractFenced(raw)
        loaded == JsonLoads(response_content)
    IN  IF loaded.ok
        THEN Outcome(loaded.v, "strict", response_content, <<>>, 1)
        ELSE Outcome(parse_simple_response(response_content), "fallback",
                     response_content, <<>>, 1)

\* the inner try of the Groq and Claude adapters: extract, json.loads, and
\* on JSONDecodeError the fallback on the raw reply
NormalizeFenced(raw) ==
    LET response_content == ExtractFenced(raw)
        loaded == JsonLoads(response_content)
    IN  IF loaded.ok
        THEN Outcome(loaded.v, "strict", response_content, <<>>, 1)
        ELSE Outcome(parse_simple_response(raw), "fallback",
                     response_content, <<>>, 1)

\* the inner try of the OpenAI adapter: json.loads of the whole reply
NormalizePlain(raw) ==
    LET loaded == JsonLoads(raw)
    IN  IF loaded.ok
        THEN Outcome(loaded.v, "strict", raw, <<>>, 1)
        ELSE Outcome(parse_simple_response(raw), "fallback", raw, <<>>, 1)

\* ---------------------------------------------------- provider adapters
\* What the model service answered to the one request of an adapter:
\*   api_error  create(...) raised (transport, authentication, provider side)
\*   no_choices the envelope has no first choice / content block
\*   no_text    the envelope's text is None
\*   text       the raw reply text
\* wellformed: text is, as a whole, the serialisation of the study artifact
\* sent (a strictly well-formed structured reply).

Failure(kind) == [kind |-> kind, text |-> <<>>, wellformed |-> FALSE, sent |-> PyNone]
TextReply(text, wellformed, sent) ==
    [kind |-> "text", text |-> text, wellformed |-> wellformed, sent |-> sent]
NoReply == Failure("none")

FailureKinds == {"api_error", "no_choices", "no_text"}

\* the exception each failure raises inside the adapter's outer try
ExceptionOf(kind) ==
    CASE kind = "api_error" -> "APIError"
      [] kind = "no_choices" -> "IndexError"
      [] kind = "no_text" -> "TypeError"

\* AIStudyAssistant.generate_study_content_groq
generate_study_content_groq(reply) ==
    IF reply.kind = "text" THEN NormalizeFenced(reply.text)
    ELSE OnProviderError("Groq", ExceptionOf(reply.kind))

\* AIStudyAssistant.generate_study_content_claude
generate_study_content_claude(reply) ==
    IF reply.kind = "text" THEN NormalizeFenced(reply.text)
    ELSE OnProviderError("Claude", ExceptionOf(reply.kind))

\* the adapter sending its request a second time after a failure
generate_study_content_openai_Retry(reply) ==
    IF reply.kind = "text" THEN NormalizePlain(reply.text)
    ELSE [OnProviderError("OpenAI", ExceptionOf(reply.kind)) EXCEPT !.netCalls = 2]

\* AIStudyAssistant.generate_study_content_openai
generate_study_content_openai(reply) ==
    IF reply.kind = "text" THEN NormalizePlain(reply.text)
    ELSE OnProviderError("OpenAI", ExceptionOf(reply.kind))

\* ----------------------------------------------------------------- state

VARIABLES
    groq_client,    \* self.groq_client: None or the constructed client
    claude_client,  \* self.claude_client
    openai_client,  \* self.openai_client
    pc,             \* where the caller is: "new", "idle", "returned", "shown";
                    \* in main also "selected", "entered", "done"
    ai_provider,    \* the provider argument of the last call
    reply,          \* what the model service answered in the last call
    ret,            \* what the last call of generate_study_content did
    export_content, \* the export text main built from the last result
    requests,       \* calls of generate_study_content made on this assistant
    content,        \* main: the study material of this script run
    pressed         \* main: what st.button returned in this script run

vars == <<groq_client, claude_client, openai_client, pc, ai_provider, reply,
          ret, export_content, requests, content, pressed>>

None == "None"
\* Groq(api_key=...), anthropic.Anthropic(api_key=...), openai.OpenAI(api_key=...)
Client(name) == name

\* truth value of a client handle
Truthy(handle) == handle # None

NoCall == Outcome(PyNone, "none", <<>>, <<>>, 0)
NotExported == [built |-> FALSE, raised |-> "none", text |-> <<>>]

\* ---------------------------------------------------------------- inputs

\* bounds of the replies the model service is taken to give
MaxLen == 3
MaxQuestions == 2
\* calls of generate_study_content followed on one assistant
MaxRequests == 2

\* every sequence over S of length at most n
RECURSIVE SeqsUpTo(_, _)
SeqsUpTo(S, n) ==
    IF n = 0 THEN {<<>>}
    ELSE LET shorter == SeqsUpTo(S, n - 1)
         IN  shorter \cup {Append(q, x) : q \in {r \in shorter : Len(r) = n - 1}, x \in S}

\* json text of a value, ws after every "," and ":" (the model's formatting)
RECURSIVE Dumps(_, _)
RECURSIVE DumpList(_, _)
RECURSIVE DumpDict(_, _)
DumpList(items, ws) ==
    IF items = <<>> THEN <<>>
    ELSE Dumps(Head(items), ws)
         \o (IF Len(items) > 1 THEN <<",">> \o ws ELSE <<>>)
         \o DumpList(Tail(items), ws)
DumpDict(items, ws) ==
    IF items = <<>> THEN <<>>
    ELSE <<QT>> \o Head(items).k \o <<QT, ":">> \o ws \o Dumps(Head(items).v, ws)
         \o (IF Len(items) > 1 THEN <<",">> \o ws ELSE <<>>)
         \o DumpDict(Tail(items), ws)
Dumps(v, ws) ==
    CASE v.t = "str" -> <<QT>> \o v.s \o <<QT>>
      [] v.t = "int" -> v.s
      [] v.t = "None" -> <<"null">>
      [] v.t = "list" -> <<"[">> \o DumpList(v.a, ws) \o <<"]">>
      [] v.t = "dict" -> <<"{">> \o DumpDict(v.o, ws) \o <<"}">>

Options == PyList(<<PyStr(<<"A">>), PyStr(<<"B">>), PyStr(<<"C">>), PyStr(<<"D">>)>>)

\* the question objects a reply may carry: the three kinds of the prompt's
\* schema, and multiple-choice objects with an attribute left out
QuestionShapes ==
    { PyDict(<<Item(K("type"), PyStr(K("multiple_choice"))),
               Item(K("question"), PyStr(<<"a">>)),
               Item(K("options"), Options),
               Item(K("correct_answer"), PyStr(<<"B">>))>>),
      PyDict(<<Item(K("type"), PyStr(K("multiple_choice"))),
               Item(K("question"), PyStr(<<"a">>)),
               Item(K("options"), Options)>>),
      PyDict(<<Item(K("type"), PyStr(K("multiple_choice"))),
               Item(K("question"), PyStr(<<"b">>)),
               Item(K("correct_answer"), PyStr(<<"B">>))>>),
      PyDict(<<Item(K("type"), PyStr(K("short_answer"))),
               Item(K("question"), PyStr(<<"b">>)),
               Item(K("sample_answer"), PyStr(<<"a">>))>>),
      PyDict(<<Item(K("type"), PyStr(K("analytical"))),
               Item(K("question"), PyStr(<<"a", SP, "b">>)),
               Item(K("sample_answer"), PyStr(<<"b">>))>>) }

Summaries == {<<>>, <<"a">>, <<"a", SP, FENCE_JSON>>}

\* the structured objects with both fields
Artifacts ==
    {Artifact(PyStr(sm), PyList(qs)) :
        sm \in Summaries, qs \in SeqsUpTo(QuestionShapes, MaxQuestions)}

\* valid json that is no such object
NonArtifacts ==
    {PyInt(<<"7">>), PyNone, PyList(<<>>), PyDict(<<>>),
     PyDict(<<Item(K("summary"), PyStr(<<"a">>))>>),
     PyDict(<<Item(K("questions"), PyList(<<>>))>>)}

\* how a reply wraps its json: alone, fenced, fenced inside prose (with two
\* blank lines before the closing paragraph), behind an opening fence that
\* is never closed, after a paragraph of prose
Wrappings ==
    { [pre |-> <<>>, post |-> <<>>, ws |-> <<>>],
      [pre |-> <<FENCE_JSON, NL>>, post |-> <<NL, FENCE>>, ws |-> <<SP>>],
      [pre |-> <<"a", NL, NL, FENCE_JSON, NL>>,
       post |-> <<NL, FENCE, NL, NL, NL, NL, "b">>, ws |-> <<>>],
      [pre |-> <<FENCE_JSON>>, post |-> <<>>, ws |-> <<>>],
      [pre |-> <<"a", NL, NL>>, post |-> <<>>, ws |-> <<>>] }

ProseTokens == {NL, "a", "7", "{", "}", FENCE_JSON, FENCE}

StructuredReplies ==
    {LET whole == w.pre = <<>> /\ w.post = <<>> /\ v \in Artifacts
     IN  TextReply(w.pre \o Dumps(v, w.ws) \o w.post, whole,
                   IF whole THEN v ELSE PyNone) :
        w \in Wrappings, v \in Artifacts \cup NonArtifacts}

FreeReplies ==
    {TextReply(t, FALSE, PyNone) : t \in SeqsUpTo(ProseTokens, MaxLen)}

Replies ==
    {Failure(k) : k \in FailureKinds} \cup StructuredReplies \cup FreeReplies

ProviderNames == {"Groq", "Claude", "OpenAI"}
\* a name that is none of the three, and one that differs in case only
Providers == ProviderNames \cup {"Gemini", "groq"}

\* ------------------------------------------------------------ operations

\* the final else replaced by a default adapter: whichever client exists
generate_study_content_DefaultAdapter(provider, rep) ==
    IF provider = "Groq" /\ Truthy(groq_client)
    THEN generate_study_content_groq(rep)
    ELSE IF provider = "Claude" /\ Truthy(claude_client)
    THEN generate_study_content_claude(rep)
    ELSE IF provider = "OpenAI" /\ Truthy(openai_client)
    THEN generate_study_content_openai(rep)
    ELSE IF Truthy(groq_client) THEN generate_study_content_groq(rep)
    ELSE IF Truthy(claude_client) THEN generate_study_content_claude(rep)
    ELSE IF Truthy(openai_client) THEN generate_study_content_openai(rep)
    ELSE Outcome(EmptyArtifact, "unavailable", <<>>,
                 <<<<"Selected AI provider is not available", provider>>>>, 0)

\* AIStudyAssistant.generate_study_content; rep is what the service answers
\* if a request is sent
generate_study_content(provider, rep) ==
    IF provider = "Groq" /\ Truthy(groq_client)
    THEN generate_study_content_groq(rep)
    ELSE IF provider = "Claude" /\ Truthy(claude_client)
    THEN generate_study_content_claude(rep)
    ELSE IF provider = "OpenAI" /\ Truthy(openai_client)
    THEN generate_study_content_openai(rep)
    ELSE Outcome(EmptyArtifact, "unavailable", <<>>,
                 <<<<"Selected AI provider is not available", provider>>>>, 0)

\* the handle setup_ai_clients leaves for one provider: the key is looked up
\* in os.environ, then in st.secrets; a constructor that raises leaves None
\* (the sidebar warning it also shows is display only)
ClientFor(name, key, raises) ==
    IF key \in {"environ", "secrets"} /\ ~raises THEN Client(name) ELSE None

KeySources == {"absent", "environ", "secrets"}

Init ==
    /\ groq_client = None
    /\ claude_client = None
    /\ openai_client = None
    /\ pc = "new"
    /\ ai_provider = "none"
    /\ reply = NoReply
    /\ ret = NoCall
    /\ export_content = NotExported
    /\ requests = 0
    /\ content = <<>>
    /\ pressed = FALSE

\* AIStudyAssistant.__init__ -> setup_ai_clients
Setup ==
    /\ pc = "new"
    /\ \E keys \in [ProviderNames -> KeySources], raising \in SUBSET ProviderNames :
          /\ groq_client' = ClientFor("Groq", keys["Groq"], "Groq" \in raising)
          /\ claude_client' = ClientFor("Claude", keys["Claude"], "Claude" \in raising)
          /\ openai_client' = ClientFor("OpenAI", keys["OpenAI"], "OpenAI" \in raising)
    /\ pc' = "idle"
    /\ UNCHANGED <<ai_provider, reply, ret, export_content, requests, content,
                   pressed>>

\* the call with an except clause that also drops the failed client
Generate_DropsClientOnError ==
    /\ pc = "idle"
    /\ requests < MaxRequests
    /\ \E provider \in Providers, rep \in Replies :
          LET done == generate_study_content(provider, rep)
          IN  /\ ai_provider' = provider
              /\ ret' = done
              /\ reply' = IF done.netCalls = 0 THEN NoReply ELSE rep
    /\ pc' = "returned"
    /\ requests' = requests + 1
    /\ export_content' = NotExported
    /\ groq_client' = IF ret'.path = "error" /\ ai_provider' = "Groq"
                      THEN None ELSE groq_client
    /\ claude_client' = IF ret'.path = "error" /\ ai_provider' = "Claude"
                        THEN None ELSE claude_client
    /\ openai_client' = IF ret'.path = "error" /\ ai_provider' = "OpenAI"
                        THEN None ELSE openai_client
    /\ UNCHANGED <<content, pressed>>

\* one call assistant.generate_study_content(content, ai_provider); content
\* enters the prompt of the request only, and the service may answer anything
Generate ==
    /\ pc = "idle"
    /\ requests < MaxRequests
    /\ \E provider \in Providers, rep \in Replies :
          LET done == generate_study_content(provider, rep)
          IN  /\ ai_provider' = provider
              /\ ret' = done
              /\ reply' = IF done.netCalls = 0 THEN NoReply ELSE rep
    /\ pc' = "returned"
    /\ requests' = requests + 1
    /\ export_content' = NotExported
    /\ UNCHANGED <<groq_client, claude_client, openai_client, content, pressed>>

\* ------------------------------------------------------- main: the export

\* bool(v)
Truth(v) ==
    CASE v.t = "str" -> v.s # <<>>
      [] v.t = "int" -> \E i \in 1..Len(v.s) : v.s[i] # "0"
      [] v.t = "None" -> FALSE
      [] v.t = "list" -> v.a # <<>>
      [] v.t = "dict" -> v.o # <<>>

\* repr(v), as an f-string prints a value that is no str
RECURSIVE Repr(_)
RECURSIVE ReprList(_)
RECURSIVE ReprDict(_)
ReprList(items) ==
    IF items = <<>> THEN <<>>
    ELSE Repr(Head(items)) \o (IF Len(items) > 1 THEN <<",", SP>> ELSE <<>>)
         \o ReprList(Tail(items))
ReprDict(items) ==
    IF items = <<>> THEN <<>>
    ELSE <<"'">> \o Head(items).k \o <<"'", ":", SP>> \o Repr(Head(items).v)
         \o (IF Len(items) > 1 THEN <<",", SP>> ELSE <<>>)
         \o ReprDict(Tail(items))
Repr(v) ==
    CASE v.t = "str" -> <<"'">> \o v.s \o <<"'">>
      [] v.t = "int" -> v.s
      [] v.t = "None" -> <<"None">>
      [] v.t = "list" -> <<"[">> \o ReprList(v.a) \o <<"]">>
      [] v.t = "dict" -> <<"{">> \o ReprDict(v.o) \o <<"}">>

\* f"{v}"
Format(v) == IF v.t = "str" THEN v.s ELSE Repr(v)

\* what a for loop over v visits: [ok |-> FALSE] stands for TypeError
Iterate(v) ==
    CASE v.t = "list" -> [ok |-> TRUE, items |-> v.a]
      [] v.t = "dict" -> [ok |-> TRUE, items |-> [i \in 1..Len(v.o) |-> PyStr(v.o[i].k)]]
      [] v.t = "str" -> [ok |-> TRUE, items |-> [i \in 1..Len(v.s) |-> PyStr(<<v.s[i]>>)]]
      [] OTHER -> [ok |-> FALSE, items |-> <<>>]

Text(ok, text) == [ok |-> ok, text |-> text]

\* for option in question["options"]: export_content += f"{option}\n"
RECURSIVE OptionLines(_)
OptionLines(options) ==
    IF options = <<>> THEN <<>>
    ELSE Format(Head(options)) \o <<NL>> \o OptionLines(Tail(options))

\* the section with the test of the display loop: sample answers of
\* short_answer questions only
QuestionSection_ShortAnswerOnly(i, question) ==
    IF ~(HasKey(question, K("question")) /\ HasKey(question, K("type")))
    THEN Text(FALSE, <<>>)
    ELSE
    LET head == <<NL, "## Question ", ToString(i), NL>>
                \o Format(Get(question, K("question"))) \o <<NL>>
    IN  IF Get(question, K("type")) = PyStr(K("multiple_choice"))
           /\ HasKey(question, K("options"))
        THEN LET options == Iterate(Get(question, K("options")))
             IN  Text(options.ok,
                      head \o OptionLines(options.items)
                      \o (IF HasKey(question, K("correct_answer"))
                          THEN <<NL, "**Correct Answer:** ">>
                               \o Format(Get(question, K("correct_answer"))) \o <<NL>>
                          ELSE <<>>))
        ELSE IF Get(question, K("type")) = PyStr(K("short_answer"))
                /\ HasKey(question, K("sample_answer"))
        THEN Text(TRUE, head \o <<NL, "**Sample Answer:** ">>
                        \o Format(Get(question, K("sample_answer"))) \o <<NL>>)
        ELSE Text(TRUE, head)

\* the body of the export loop for question number i; [ok |-> FALSE] stands
\* for the KeyError or TypeError of a question without text or type
QuestionSection(i, question) ==
    IF ~(HasKey(question, K("question")) /\ HasKey(question, K("type")))
    THEN Text(FALSE, <<>>)
    ELSE
    LET head == <<NL, "## Question ", ToString(i), NL>>
                \o Format(Get(question, K("question"))) \o <<NL>>
    IN  IF Get(question, K("type")) = PyStr(K("multiple_choice"))
           /\ HasKey(question, K("options"))
        THEN LET options == Iterate(Get(question, K("options")))
             IN  Text(options.ok,
                      head \o OptionLines(options.items)
                      \o (IF HasKey(question, K("correct_answer"))
                          THEN <<NL, "**Correct Answer:** ">>
                               \o Format(Get(question, K("correct_answer"))) \o <<NL>>
                          ELSE <<>>))
        ELSE IF HasKey(question, K("sample_answer"))
        THEN Text(TRUE, head \o <<NL, "**Sample Answer:** ">>
                        \o Format(Get(question, K("sample_answer"))) \o <<NL>>)
        ELSE Text(TRUE, head)

\* for i, question in enumerate(result["questions"], 1): ...
RECURSIVE QuestionSections(_, _)
QuestionSections(i, questions) ==
    IF questions = <<>> THEN Text(TRUE, <<>>)
    ELSE LET first == QuestionSection(i, Head(questions))
             rest == QuestionSections(i + 1, Tail(questions))
         IN  Text(first.ok /\ rest.ok, first.text \o rest.text)

\* main from "if result[...] or result[...]" to the download button: the
\* export text, or the exception that ends the script run
ExportOf(result) ==
    IF result.t # "dict"
    THEN [built |-> FALSE, raised |-> "TypeError", text |-> <<>>]
    ELSE IF ~(HasKey(result, K("summary")) /\ HasKey(result, K("questions")))
    THEN [built |-> FALSE, raised |-> "KeyError", text |-> <<>>]
    ELSE IF ~(Truth(Get(result, K("summary"))) \/ Truth(Get(result, K("questions"))))
    THEN NotExported
    ELSE
    LET questions == Iterate(Get(result, K("questions")))
        sections == QuestionSections(1, questions.items)
    IN  IF ~(questions.ok /\ sections.ok)
        THEN [built |-> FALSE, raised |-> "TypeError", text |-> <<>>]
        ELSE [built |-> TRUE, raised |-> "none",
              text |-> <<NL, "# Study Summary", NL, NL>>
                       \o Format(Get(result, K("summary")))
                       \o <<NL, NL, "# Practice Questions", NL, NL>>
                       \o sections.text]

\* main after the call returned: display and export
ShowAndExport ==
    /\ pc = "returned"
    /\ ret.raised = "none"
    /\ export_content' = ExportOf(ret.result)
    /\ pc' = "shown"
    /\ UNCHANGED <<groq_client, claude_client, openai_client, ai_provider, reply,
                   ret, requests, content, pressed>>

\* the caller goes on to its next request on the same assistant; what the
\* last call returned is no longer held
NextRequest ==
    /\ pc \in {"returned", "shown"}
    /\ pc' = "idle"
    /\ ai_provider' = "none"
    /\ reply' = NoReply
    /\ ret' = NoCall
    /\ export_content' = NotExported
    /\ UNCHANGED <<groq_client, claude_client, openai_client, requests, content,
                   pressed>>


\* the assistant under any caller: every provider name may be passed
Next == Setup \/ Generate \/ ShowAndExport \/ NextRequest

Spec == Init /\ [][Next]_vars

\* ------------------------------------------------- main: one script run

\* the least number of characters, after strip, that is not enough
MinContent == 50

\* n times the character c
Repeat(c, n) == [i \in 1..n |-> c]

\* what st.text_area returns, or extract_text_from_pdf (already stripped, ""
\* on failure): nothing, or text of 0, MinContent or MinContent + 1 visible
\* characters, bare or between white space
Contents ==
    {<<>>}
    \cup {Repeat("a", n) : n \in {MinContent, MinContent + 1}}
    \cup {<<SP>> \o Repeat("a", n) \o <<NL>> : n \in {0, MinContent, MinContent + 1}}

\* a selectbox offering all three names, whatever clients exist
available_providers_AllNames == <<"Groq", "Claude", "OpenAI">>

\* available_providers: one append per client that is truthy, in this order
available_providers ==
    (IF Truthy(groq_client) THEN <<"Groq">> ELSE <<>>)
    \o (IF Truthy(claude_client) THEN <<"Claude">> ELSE <<>>)
    \o (IF Truthy(openai_client) THEN <<"OpenAI">> ELSE <<>>)

\* content and len(content.strip()) > 50
LongEnough(text) == text # <<>> /\ Len(Strip(text)) > MinContent

\* if not available_providers: st.error, st.info, return
main_NoProviders ==
    /\ pc = "idle"
    /\ available_providers = <<>>
    /\ pc' = "done"
    /\ UNCHANGED <<groq_client, claude_client, openai_client, ai_provider, reply,
                   ret, export_content, requests, content, pressed>>

\* st.sidebar.selectbox: one of the options, the list being non-empty
main_SelectProvider ==
    /\ pc = "idle"
    /\ available_providers # <<>>
    /\ \E i \in DOMAIN available_providers : ai_provider' = available_providers[i]
    /\ pc' = "selected"
    /\ UNCHANGED <<groq_client, claude_client, openai_client, reply, ret,
                   export_content, requests, content, pressed>>

\* content = "" and then the text area or the extracted PDF text
main_Input ==
    /\ pc = "selected"
    /\ \E text \in Contents : content' = text
    /\ pc' = "entered"
    /\ UNCHANGED <<groq_client, claude_client, openai_client, ai_provider, reply,
                   ret, export_content, requests, pressed>>

\* the button is drawn, was pressed, and generate_study_content is called
main_Generate ==
    /\ pc = "entered"
    /\ LongEnough(content)
    /\ pressed' = TRUE
    /\ \E rep \in Replies :
          LET done == generate_study_content(ai_provider, rep)
          IN  /\ ret' = done
              /\ reply' = IF done.netCalls = 0 THEN NoReply ELSE rep
    /\ pc' = "returned"
    /\ requests' = requests + 1
    /\ UNCHANGED <<groq_client, claude_client, openai_client, ai_provider,
                   export_content, content>>

\* the script run ends without a call: the button is drawn and was not
\* pressed, or the warning of the elif is shown, or content is empty
main_Footer ==
    /\ pc = "entered"
    /\ pc' = "done"
    /\ UNCHANGED <<groq_client, claude_client, openai_client, ai_provider, reply,
                   ret, export_content, requests, content, pressed>>

\* the next script run: main starts again with a new AIStudyAssistant
main_Rerun ==
    /\ pc \in {"done", "returned", "shown"}
    /\ groq_client' = None
    /\ claude_client' = None
    /\ openai_client' = None
    /\ pc' = "new"
    /\ ai_provider' = "none"
    /\ reply' = NoReply
    /\ ret' = NoCall
    /\ export_content' = NotExported
    /\ requests' = 0
    /\ content' = <<>>
    /\ pressed' = FALSE

\* the assistant under main: script runs, one after the other
MainNext ==
    \/ Setup
    \/ main_NoProviders
    \/ main_SelectProvider
    \/ main_Input
    \/ main_Generate
    \/ main_Footer
    \/ ShowAndExport
    \/ main_Rerun

MainSpec == Init /\ [][MainNext]_vars

\* ================================================================ claims

Returned == pc \in {"returned", "shown"}

HandleOf(name) ==
    CASE name = "Groq" -> groq_client
      [] name = "Claude" -> claude_client
      [] name = "OpenAI" -> openai_client

\* the providers with a constructed client
Configured == {name \in ProviderNames : HandleOf(name) # None}

Field(v, word) == Get(v, K(word))

\* C1: a call whose provider has no constructed client, or is none of the
\* three known names, returns exactly {summary: "", questions: []} and
\* sends no request to a model service.
C1_UnavailableReturnsEmptyWithoutCall ==
    (Returned /\ ai_provider \notin Configured) =>
        /\ ret.raised = "none"
        /\ ret.result = EmptyArtifact
        /\ ret.netCalls = 0

\* reached: Groq asked for while only another provider is configured
C1_Witness ==
    /\ pc = "returned"
    /\ ai_provider = "Groq"
    /\ groq_client = None
    /\ openai_client # None
    /\ ret.result = EmptyArtifact
    /\ ret.netCalls = 0

\* C2: every value generate_study_content returns is an object in which the
\* summary field and the questions field are both present and not null.
C2_BothFieldsAlwaysPresent ==
    Returned =>
        /\ ret.raised = "none"
        /\ HasKey(ret.result, K("summary"))
        /\ HasKey(ret.result, K("questions"))
        /\ Field(ret.result, "summary") # PyNone
        /\ Field(ret.result, "questions") # PyNone

\* C3: when the request of an adapter fails (the call raises, or the reply
\* envelope is malformed), generate_study_content emits an error message
\* naming the provider, returns the empty artifact, and raises nothing.
C3_AdapterFailureReportedAndEmpty ==
    (Returned /\ reply.kind \in FailureKinds) =>
        /\ ret.raised = "none"
        /\ ret.result = EmptyArtifact
        /\ ret.msgs = <<<<"Error generating content with", ai_provider>>>>

\* reached: a Claude reply envelope without a content block
C3_Witness ==
    /\ pc = "returned"
    /\ ai_provider = "Claude"
    /\ reply.kind = "no_choices"
    /\ ret.path = "error"
    /\ ret.result = EmptyArtifact

\* C4: whenever the heuristic fallback produced the result, the summary is a
\* non-empty text and every question is of type short_answer.
C4_FallbackSummaryNonEmpty ==
    (Returned /\ ret.path = "fallback") =>
        /\ Field(ret.result, "summary").t = "str"
        /\ Field(ret.result, "summary").s # <<>>
        /\ \A i \in 1..Len(Field(ret.result, "questions").a) :
              Field(Field(ret.result, "questions").a[i], "type")
                  = PyStr(K("short_answer"))

\* the text strictly between the first opening fence and the next fence
\* after it; defined when there is such a pair
HasOpeningFence(text) == \E i \in 1..Len(text) : text[i] = FENCE_JSON
FirstOpening(text) ==
    CHOOSE i \in 1..Len(text) :
        text[i] = FENCE_JSON /\ \A j \in 1..(i - 1) : text[j] # FENCE_JSON
HasClosingFence(text) ==
    \E j \in (FirstOpening(text) + 1)..Len(text) : StartsWithFence(text[j])
FenceInterior(text) ==
    LET opening == FirstOpening(text)
        closing == CHOOSE j \in (opening + 1)..Len(text) :
                      /\ StartsWithFence(text[j])
                      /\ \A k \in (opening + 1)..(j - 1) : ~StartsWithFence(text[k])
    IN  SubSeq(text, opening + 1, closing - 1)

\* C5: for every provider, the text handed to the strict parser is the
\* interior between the first opening fence and the next closing fence when
\* the reply has an opening fence, and the whole reply when it has none.
C5_ParsedTextIsFenceInterior ==
    (Returned /\ reply.kind = "text") =>
        IF HasOpeningFence(reply.text)
        THEN HasClosingFence(reply.text) => ret.parsed = FenceInterior(reply.text)
        ELSE ret.parsed = reply.text

\* C6: when an available provider answers with a strictly well-formed
\* structured reply, the returned summary and questions are those of the
\* reply, element for element and in order.
C6_WellFormedReplyRoundTrips ==
    (Returned /\ reply.kind = "text" /\ reply.wellformed) =>
        /\ ret.raised = "none"
        /\ ret.result = reply.sent

\* a block with its leading and trailing whitespace removed
NonBlank(block) == \E k \in 1..Len(block) : ~IsSpace(block[k])
Trimmed(block) ==
    LET inked == {k \in 1..Len(block) : ~IsSpace(block[k])}
    IN  SubSeq(block, CHOOSE k \in inked : \A m \in inked : k <= m,
                      CHOOSE k \in inked : \A m \in inked : m <= k)

\* C7: the fallback is taken exactly when the strict parse of the handed
\* text fails, and its result is built from the RAW reply split at blank
\* lines: summary is the first block, and the questions are, in block order,
\* one short_answer question per later non-blank block, with the trimmed
\* block as question and "Answer not provided" as sample answer.
C7_FallbackOnlyOnParseErrorFromRawBlocks ==
    (Returned /\ reply.kind = "text") =>
        /\ (ret.path = "fallback") <=> ~JsonLoads(ret.parsed).ok
        /\ (ret.path = "fallback") =>
              LET blocks == Split(reply.text)
                  later == {i \in 2..Len(blocks) : NonBlank(blocks[i])}
                  Nth(n) == CHOOSE i \in later :
                                Cardinality({j \in later : j < i}) = n - 1
                  questions == Field(ret.result, "questions").a
              IN  /\ Field(ret.result, "summary") = PyStr(blocks[1])
                  /\ Len(questions) = Cardinality(later)
                  /\ \A n \in 1..Len(questions) :
                        questions[n] = PyDict(<<
                            Item(K("type"), PyStr(K("short_answer"))),
                            Item(K("question"), PyStr(Trimmed(blocks[Nth(n)]))),
                            Item(K("sample_answer"),
                                 PyStr(K("Answer not provided")))>>)

\* reached: a fallback after a fence extraction, so that the raw reply and
\* the extracted text differ, with a blank block skipped among the questions
C7_Witness ==
    /\ pc = "returned"
    /\ ret.path = "fallback"
    /\ ret.parsed # reply.text
    /\ Len(Field(ret.result, "questions").a) >= 1
    /\ Len(Field(ret.result, "questions").a) < Len(Split(reply.text)) - 1

\* C8: one call sends at most one request; a call that ends in failure
\* (provider unavailable, adapter failure) emits exactly one error message,
\* and a call that ends by the strict parse or the fallback emits none.
C8_OneRequestOneReport ==
    Returned =>
        /\ ret.netCalls <= 1
        /\ ret.path \in {"unavailable", "error", "strict", "fallback"}
        /\ ret.path \in {"unavailable", "error"} => Len(ret.msgs) = 1
        /\ ret.path \in {"strict", "fallback"} => ret.msgs = <<>>

\* reached: an OpenAI call that failed after its one request
C8_Witness ==
    /\ pc = "returned"
    /\ ai_provider = "OpenAI"
    /\ ret.path = "error"
    /\ ret.netCalls = 1
    /\ Len(ret.msgs) = 1

\* the export text of a well-typed artifact, section by section
IsText(v, word) == HasKey(v, K(word)) /\ Field(v, word).t = "str"
Heading(summary) ==
    <<NL, "# Study Summary", NL, NL>> \o summary
    \o <<NL, NL, "# Practice Questions", NL, NL>>
Title(n, question) ==
    <<NL, "## Question ", ToString(n), NL>> \o Field(question, "question").s \o <<NL>>
RECURSIVE Lines(_)
Lines(options) ==
    IF options = <<>> THEN <<>>
    ELSE Head(options).s \o <<NL>> \o Lines(Tail(options))
CorrectAnswerLine(question) ==
    IF HasKey(question, K("correct_answer"))
    THEN <<NL, "**Correct Answer:** ">> \o Field(question, "correct_answer").s \o <<NL>>
    ELSE <<>>
SampleAnswerLine(question) ==
    IF HasKey(question, K("sample_answer"))
    THEN <<NL, "**Sample Answer:** ">> \o Field(question, "sample_answer").s \o <<NL>>
    ELSE <<>>
IsMultipleChoice(question) == Field(question, "type") = PyStr(K("multiple_choice"))

\* options and correct answer only for a multiple_choice question that
\* carries options; otherwise the sample answer
DetailAsBuilt(question) ==
    IF IsMultipleChoice(question) /\ HasKey(question, K("options"))
    THEN Lines(Field(question, "options").a) \o CorrectAnswerLine(question)
    ELSE SampleAnswerLine(question)

\* options and correct answer for every multiple_choice question
DetailAsClaimed(question) ==
    IF IsMultipleChoice(question)
    THEN (IF HasKey(question, K("options"))
          THEN Lines(Field(question, "options").a) ELSE <<>>)
         \o CorrectAnswerLine(question)
    ELSE SampleAnswerLine(question)

RECURSIVE Concat(_)
Concat(texts) == IF texts = <<>> THEN <<>> ELSE Head(texts) \o Concat(Tail(texts))

Document(questions, Detail(_)) ==
    Concat([n \in 1..Len(questions) |->
               Title(n, questions[n]) \o Detail(questions[n])])

Exported ==
    /\ pc = "shown"
    /\ export_content.built
    /\ IsText(ret.result, "summary")
    /\ Field(ret.result, "questions").t = "list"

\* C9 (as amended): the export text is the Study Summary heading and the
\* summary, the Practice Questions heading, then one section per question
\* numbered 1..n in order: the question text, followed by its options and
\* its correct answer when the question is multiple_choice and carries
\* options, and otherwise by its sample answer.
C9_ExportSections ==
    Exported =>
        export_content.text =
            Heading(Field(ret.result, "summary").s)
            \o Document(Field(ret.result, "questions").a, DetailAsBuilt)

\* reached: an export of two questions, a multiple_choice one with options
\* and correct answer followed by an analytical one with a sample answer
C9_Witness ==
    /\ Exported
    /\ Len(Field(ret.result, "questions").a) = 2
    /\ LET first == Field(ret.result, "questions").a[1]
           second == Field(ret.result, "questions").a[2]
       IN  /\ IsMultipleChoice(first)
           /\ HasKey(first, K("options"))
           /\ HasKey(first, K("correct_answer"))
           /\ Field(second, "type") = PyStr(K("analytical"))
           /\ HasKey(second, K("sample_answer"))

\* C9 (as claimed): every multiple_choice section reproduces the options
\* and the correct answer of its question.
C9_ExportSectionsAsClaimed ==
    Exported =>
        export_content.text =
            Heading(Field(ret.result, "summary").s)
            \o Document(Field(ret.result, "questions").a, DetailAsClaimed)

\* C10: once setup_ai_clients has run, no operation changes a client handle.
C10_ClientsFixedAfterSetup ==
    [][pc # "new" =>
          /\ groq_client' = groq_client
          /\ claude_client' = claude_client
          /\ openai_client' = openai_client]_vars

\* reached: the second call on one assistant has failed at a provider whose
\* client is still in place, next to a provider that was never configured
C10_Witness ==
    /\ pc = "returned"
    /\ requests = MaxRequests
    /\ ret.path = "error"
    /\ ai_provider = "Groq"
    /\ groq_client = Client("Groq")
    /\ claude_client = None

====
